---- MODULE Spec2Model ----
(***************************************************************************)
(* State-machine model of src/main.c: a fixed-bucket-count hash table with *)
(* separate chaining (struct HashTable / struct Bucket), the DJB2 hash and *)
(* the operations construct, add, search, remove, print and destroy.       *)
(*                                                                         *)
(* Pointers.  A struct Bucket* is a node id: NULL is 0, node ids are the   *)
(* positions 1..Len(heap) in allocation order (every malloc of a Bucket    *)
(* appends one node; a released node keeps its id, so an id names one      *)
(* allocation).  A char* key is a key address; the characters stored at an *)
(* address are Str[address].  The source compares keys with == and !=,     *)
(* that is by address, and the model does the same.  Address EmptyLit is   *)
(* the string literal "" of main.c: the model takes the build in which the *)
(* identical literals of the translation unit share one address (the build *)
(* under which the program's sentinel test works at all).                  *)
(***************************************************************************)
EXTENDS Integers, Sequences, FiniteSets, TLC

\* ---------------------------------------------------------------- bounds
MaxBuckets == 2      \* construct is tried with every count in -1..MaxBuckets
MaxUpserts == 3      \* at most this many addToTable calls on one table
MaxStrLen  == 11     \* hash is applied to strings of up to this many bytes

\* ------------------------------------------------------------- constants
NULL    == 0                  \* the null Bucket pointer ("return 0")
Uninit  == 0 - 1              \* content of a field malloc left unset
EmptyLit == 0                 \* address of the string literal ""
Seed    == 5381               \* DJB2 start value
WordBits == 64                \* width of unsigned long (LP64)
LimbBits == 16                \* a word is kept as WordBits \div LimbBits limbs

\* Key objects the caller owns: address -> characters (byte values).
\* Addresses 1 and 2 hold the same characters in two different buffers.
Str == [a \in 0..3 |-> CASE a = 0 -> <<>>
                         [] a = 1 -> <<97>>
                         [] a = 2 -> <<97>>
                         [] a = 3 -> <<98>>]
KeyAddrs == DOMAIN Str
\* The upserts the caller makes: <<key address, value>>
Puts == {<<0, 1>>, <<1, 1>>, <<1, 2>>, <<2, 2>>, <<3, 1>>}

VARIABLES
  phase,       \* "new" (no table yet), "live", "destroyed", "undefined"
  numBuckets,  \* table->numBuckets
  buckets,     \* table->buckets[]: index -> node id
  heap,        \* node id -> [key, value, chainedBucket]
  freeCount,   \* node id -> number of free() calls on that node
  out,         \* what the last printTable wrote
  last,        \* the last call and its result
  present,     \* history: the key addresses upserted and not removed since
  filled,      \* history: node id -> ordinal of the upsert that filled it
  hstr,        \* the string handed to hash
  hacc         \* what hash returned for hstr

hvars == <<hstr, hacc>>
vars == <<phase, numBuckets, buckets, heap, freeCount, out, last, present,
          filled, hstr, hacc>>

\* ------------------------------------------------- unsigned long words
LimbBase == 2^LimbBits
NumLimbs == WordBits \div LimbBits

\* n (0 <= n < 2^31) as an unsigned long, least significant limb first
ToWord(n) == [i \in 1..NumLimbs |->
                CASE i = 1 -> n % LimbBase
                  [] i = 2 -> (n \div LimbBase) % LimbBase
                  [] OTHER -> 0]

\* a + b modulo 2^WordBits
RECURSIVE AddLimbs(_, _, _, _)
AddLimbs(a, b, carry, i) ==
  IF i > NumLimbs THEN <<>>
  ELSE LET t == a[i] + b[i] + carry
       IN  <<t % LimbBase>> \o AddLimbs(a, b, t \div LimbBase, i + 1)
AddWord(a, b) == AddLimbs(a, b, 0, 1)

\* a << 5 modulo 2^WordBits
RECURSIVE ShlLimbs(_, _, _)
ShlLimbs(a, carry, i) ==
  IF i > NumLimbs THEN <<>>
  ELSE LET t == a[i] * 32 + carry
       IN  <<t % LimbBase>> \o ShlLimbs(a, t \div LimbBase, i + 1)
Shl5(a) == ShlLimbs(a, 0, 1)

\* a % n for 0 < n < 2^15
RECURSIVE ModLimbs(_, _, _, _)
ModLimbs(a, n, r, i) ==
  IF i = 0 THEN r ELSE ModLimbs(a, n, (r * LimbBase + a[i]) % n, i - 1)
ModWord(a, n) == ModLimbs(a, n, 0, NumLimbs)

\* ------------------------------------------------------------- hash
\* while (c = *str++) hash = ((hash << 5) + hash) + c;
\* the loop with hash = (hash << 5) + c
RECURSIVE hashLoop_NoAdd(_, _)
hashLoop_NoAdd(h, str) ==
  IF str = <<>> THEN h
  ELSE hashLoop_NoAdd(AddWord(Shl5(h), ToWord(Head(str))), Tail(str))

RECURSIVE hashLoop(_, _)
hashLoop(h, str) ==
  IF str = <<>> THEN h
  ELSE hashLoop(AddWord(AddWord(Shl5(h), h), ToWord(Head(str))), Tail(str))

hash(str) == hashLoop(ToWord(Seed), str)

\* int boundedHash = hash(key) % table->numBuckets;   (numBuckets > 0)
HashOf == [a \in KeyAddrs |-> hash(Str[a])]
boundedHash(key, n) == ModWord(HashOf[key], n)

\* ------------------------------------------------------------- nodes
Bucket(k, v, c) == [key |-> k, value |-> v, chainedBucket |-> c]

\* a node as malloc returns it, with key = "" stored into it
EmptyBucket == Bucket(EmptyLit, Uninit, Uninit)

\* a node after free(): its fields are indeterminate
Freed == Bucket(Uninit, Uninit, Uninit)

NoCall == [op |-> "none", key |-> Uninit, value |-> 0, found |-> FALSE,
           res |-> 0]
Call(op, k, v, f, r) == [op |-> op, key |-> k, value |-> v, found |-> f,
                         res |-> r]

\* ------------------------------------------------ constructHashTable
\* constructHashTable without "table->buckets[i]->key = "";"
constructHashTable_NoKeyInit(n) ==
  [heap    |-> [i \in 1..n |-> Bucket(Uninit, Uninit, Uninit)],
   buckets |-> [i \in 0..(n - 1) |-> i + 1]]

\* the nodes and the slots of a table of n >= 0 buckets
constructHashTable(n) ==
  [heap    |-> [i \in 1..n |-> EmptyBucket],
   buckets |-> [i \in 0..(n - 1) |-> i + 1]]

Construct(n) ==
  /\ phase = "new"
  /\ IF n < 0
     THEN \* malloc of a size that wrapped to nearly 2^64 returns NULL and
          \* table->numBuckets = numBuckets writes through it
          /\ phase' = "undefined"
          /\ UNCHANGED <<numBuckets, buckets, heap, freeCount, filled>>
     ELSE LET t == constructHashTable(n)
          IN  /\ phase' = "live"
              /\ numBuckets' = n
              /\ heap' = t.heap
              /\ buckets' = t.buckets
              /\ freeCount' = [i \in 1..n |-> 0]
              /\ filled' = [i \in 1..n |-> 0]
  /\ last' = Call("construct", Uninit, n, FALSE, 0)
  /\ out' = <<>>
  /\ UNCHANGED <<present, hvars>>

\* --------------------------------------------------------- chainValue
\* chainValue that mallocs the next node but never links it to the bucket
RECURSIVE chainValue_NoLink(_, _, _, _)
chainValue_NoLink(h, bucket, key, value) ==
  IF h[bucket].key # EmptyLit
  THEN LET r == chainValue_NoLink(h, h[bucket].chainedBucket, key, value)
       IN  [heap |-> [r.heap EXCEPT ![bucket].chainedBucket = r.ret],
            ret  |-> bucket]
  ELSE [heap |-> Append([h EXCEPT ![bucket] =
                           Bucket(key, value, h[bucket].chainedBucket)],
                        EmptyBucket),
        ret  |-> bucket]

\* chainValue without bucket->value = value
RECURSIVE chainValue_NoValue(_, _, _, _)
chainValue_NoValue(h, bucket, key, value) ==
  IF h[bucket].key # EmptyLit
  THEN LET r == chainValue_NoValue(h, h[bucket].chainedBucket, key, value)
       IN  [heap |-> [r.heap EXCEPT ![bucket].chainedBucket = r.ret],
            ret  |-> bucket]
  ELSE LET new == Len(h) + 1
       IN  [heap |-> Append([h EXCEPT ![bucket] =
                               Bucket(key, h[bucket].value, new)],
                            EmptyBucket),
            ret  |-> bucket]

\* chainValue that stores the pair into the bucket it is given, filled or not
chainValue_Overwrite(h, bucket, key, value) ==
  [heap |-> Append([h EXCEPT ![bucket] =
                      Bucket(key, value,
                             IF h[bucket].key # EmptyLit
                             THEN h[bucket].chainedBucket
                             ELSE Len(h) + 1)],
                   EmptyBucket),
   ret  |-> bucket]

\* returns the heap after the call and the pointer the call returns
RECURSIVE chainValue(_, _, _, _)
chainValue(h, bucket, key, value) ==
  IF h[bucket].key # EmptyLit
  THEN LET r == chainValue(h, h[bucket].chainedBucket, key, value)
       IN  [heap |-> [r.heap EXCEPT ![bucket].chainedBucket = r.ret],
            ret  |-> bucket]
  ELSE LET new == Len(h) + 1
       IN  [heap |-> Append([h EXCEPT ![bucket] = Bucket(key, value, new)],
                            EmptyBucket),
            ret  |-> bucket]

\* the node chainValue stores the pair into
RECURSIVE chainEnd(_, _)
chainEnd(h, bucket) ==
  IF h[bucket].key # EmptyLit THEN chainEnd(h, h[bucket].chainedBucket)
  ELSE bucket

\* -------------------------------------------------------- searchBucket
RECURSIVE searchBucket(_, _, _)
searchBucket(h, bucket, key) ==
  IF h[bucket].key # EmptyLit
  THEN IF h[bucket].key = key THEN bucket
       ELSE searchBucket(h, h[bucket].chainedBucket, key)
  ELSE NULL

\* searchTable that always searches the first bucket
searchTable_FirstBucket(key) == searchBucket(heap, buckets[0], key)

searchTable(key) == searchBucket(heap, buckets[boundedHash(key, numBuckets)], key)

\* what printKeyValue reports: "key: value" or "key doesn't exist!"
printKeyValue(key) ==
  LET bucket == searchTable(key)
  IN  IF bucket # NULL THEN [found |-> TRUE, value |-> heap[bucket].value]
      ELSE [found |-> FALSE, value |-> 0]

\* ------------------------------------------------ reformChainExcluding
\* reformChainExcluding with the key test inverted (bucket->key != key)
RECURSIVE reformChainExcluding_Inverted(_, _, _, _)
reformChainExcluding_Inverted(h, fc, bucket, key) ==
  IF h[bucket].key # EmptyLit
  THEN IF h[bucket].key # key
       THEN [heap |-> [h EXCEPT ![bucket] = Freed],
             freeCount |-> [fc EXCEPT ![bucket] = @ + 1],
             ret |-> h[bucket].chainedBucket]
       ELSE LET r == reformChainExcluding_Inverted(h, fc,
                                                  h[bucket].chainedBucket, key)
            IN  [heap |-> [r.heap EXCEPT ![bucket].chainedBucket = r.ret],
                 freeCount |-> r.freeCount,
                 ret |-> bucket]
  ELSE [heap |-> h, freeCount |-> fc, ret |-> bucket]

\* reformChainExcluding that returns the reformed rest of the chain instead
\* of linking it behind the bucket that did not match
RECURSIVE reformChainExcluding_ReturnRest(_, _, _, _)
reformChainExcluding_ReturnRest(h, fc, bucket, key) ==
  IF h[bucket].key # EmptyLit
  THEN IF h[bucket].key = key
       THEN [heap |-> [h EXCEPT ![bucket] = Freed],
             freeCount |-> [fc EXCEPT ![bucket] = @ + 1],
             ret |-> h[bucket].chainedBucket]
       ELSE reformChainExcluding_ReturnRest(h, fc, h[bucket].chainedBucket,
                                            key)
  ELSE [heap |-> h, freeCount |-> fc, ret |-> bucket]

\* returns the heap and the free counts after the call and the pointer the
\* call returns
RECURSIVE reformChainExcluding(_, _, _, _)
reformChainExcluding(h, fc, bucket, key) ==
  IF h[bucket].key # EmptyLit
  THEN IF h[bucket].key = key
       THEN [heap |-> [h EXCEPT ![bucket] = Freed],
             freeCount |-> [fc EXCEPT ![bucket] = @ + 1],
             ret |-> h[bucket].chainedBucket]
       ELSE LET r == reformChainExcluding(h, fc, h[bucket].chainedBucket, key)
            IN  [heap |-> [r.heap EXCEPT ![bucket].chainedBucket = r.ret],
                 freeCount |-> r.freeCount,
                 ret |-> bucket]
  ELSE [heap |-> h, freeCount |-> fc, ret |-> bucket]

\* --------------------------------------------------------- printBucket
Entry(i, h, bucket) == [tag |-> "entry", bucket |-> i, key |-> h[bucket].key,
                        value |-> h[bucket].value]
Header(i) == [tag |-> "bucket", bucket |-> i, key |-> Uninit, value |-> 0]

\* printBucket printing the entry before the rest of its chain
RECURSIVE printBucket_EntryFirst(_, _, _)
printBucket_EntryFirst(i, h, bucket) ==
  IF h[bucket].key # EmptyLit
  THEN <<Entry(i, h, bucket)>>
         \o printBucket_EntryFirst(i, h, h[bucket].chainedBucket)
  ELSE <<>>

RECURSIVE printBucket(_, _, _)
printBucket(i, h, bucket) ==
  IF h[bucket].key # EmptyLit
  THEN printBucket(i, h, h[bucket].chainedBucket) \o <<Entry(i, h, bucket)>>
  ELSE <<>>

\* the for loop of printTable from index i on
RECURSIVE printFrom(_, _, _, _)
printFrom(i, n, bs, h) ==
  IF i < n
  THEN <<Header(i)>> \o printBucket(i, h, bs[i]) \o printFrom(i + 1, n, bs, h)
  ELSE <<>>

printTable(n, bs, h) == printFrom(0, n, bs, h)

\* ------------------------------------------------------- destroyBucket
\* returns the heap and the free counts after the call
RECURSIVE destroyBucket(_, _, _)
destroyBucket(h, fc, bucket) ==
  IF h[bucket].key # EmptyLit
  THEN LET r == destroyBucket(h, fc, h[bucket].chainedBucket)
       IN  [heap |-> [r.heap EXCEPT ![bucket] = Freed],
            freeCount |-> [r.freeCount EXCEPT ![bucket] = @ + 1]]
  ELSE [heap |-> [h EXCEPT ![bucket] = Freed],
        freeCount |-> [fc EXCEPT ![bucket] = @ + 1]]

\* the for loop of destroyHashTable from index i on
RECURSIVE destroyFrom(_, _, _, _, _)
destroyFrom(i, n, bs, h, fc) ==
  IF i < n
  THEN LET r == destroyBucket(h, fc, bs[i])
       IN  destroyFrom(i + 1, n, bs, r.heap, r.freeCount)
  ELSE [heap |-> h, freeCount |-> fc]

destroyHashTable(n, bs, h, fc) == destroyFrom(0, n, bs, h, fc)

\* ------------------------------------------------------------ actions
\* hash(key) % 0 is a division by zero: anything may follow
DivideByZero(c) ==
  /\ phase' = "undefined"
  /\ last' = c
  /\ out' = <<>>
  /\ UNCHANGED <<numBuckets, buckets, heap, freeCount, filled>>

AddToTable(key, value) ==
  /\ phase = "live"
  /\ Len(heap) < numBuckets + MaxUpserts
  /\ present' = present \cup {key}
  /\ UNCHANGED hvars
  /\ IF numBuckets = 0
     THEN DivideByZero(Call("add", key, value, FALSE, 0))
     ELSE LET b == boundedHash(key, numBuckets)
              r == chainValue(heap, buckets[b], key, value)
          IN  /\ heap' = r.heap
              /\ buckets' = [buckets EXCEPT ![b] = r.ret]
              /\ freeCount' = Append(freeCount, 0)
              /\ filled' = Append([filled EXCEPT ![chainEnd(heap, buckets[b])] =
                                     Len(heap) + 1 - numBuckets], 0)
              /\ last' = Call("add", key, value, FALSE, 0)
              /\ out' = <<>>
              /\ UNCHANGED <<phase, numBuckets>>

\* printKeyValue over a searchBucket that tests "bucket->key = key"
PrintKeyValue_Assigning(key) ==
  /\ phase = "live"
  /\ numBuckets > 0
  /\ LET head == buckets[boundedHash(key, numBuckets)]
     IN  heap' = IF heap[head].key # EmptyLit
                 THEN [heap EXCEPT ![head].key = key]
                 ELSE heap
  /\ last' = Call("lookup", key, 0, heap[buckets[boundedHash(key, numBuckets)]].key # EmptyLit, 0)
  /\ out' = <<>>
  /\ UNCHANGED <<phase, numBuckets, buckets, freeCount, filled, present,
                 hvars>>

PrintKeyValue(key) ==
  /\ phase = "live"
  /\ IF numBuckets = 0
     THEN DivideByZero(Call("lookup", key, 0, FALSE, 0))
     ELSE LET r == printKeyValue(key)
          IN  /\ last' = Call("lookup", key, 0, r.found, r.value)
              /\ out' = <<>>
              /\ UNCHANGED <<phase, numBuckets, buckets, heap, freeCount, filled>>
  /\ UNCHANGED <<present, hvars>>

RemoveFromTable(key) ==
  /\ phase = "live"
  /\ present' = present \ {key}
  /\ UNCHANGED hvars
  /\ IF numBuckets = 0
     THEN DivideByZero(Call("remove", key, 0, FALSE, 0))
     ELSE LET b == boundedHash(key, numBuckets)
              r == reformChainExcluding(heap, freeCount, buckets[b], key)
          IN  /\ heap' = r.heap
              /\ freeCount' = r.freeCount
              /\ buckets' = [buckets EXCEPT ![b] = r.ret]
              /\ filled' = [i \in DOMAIN filled |->
                               IF r.freeCount[i] # freeCount[i] THEN 0
                               ELSE filled[i]]
              /\ last' = Call("remove", key, 0, searchTable(key) # NULL, 0)
              /\ out' = <<>>
              /\ UNCHANGED <<phase, numBuckets>>

PrintTable ==
  /\ phase = "live"
  /\ out' = printTable(numBuckets, buckets, heap)
  /\ last' = Call("print", Uninit, 0, FALSE, 0)
  /\ UNCHANGED <<phase, numBuckets, buckets, heap, freeCount, present,
                 filled, hvars>>

DestroyHashTable ==
  /\ phase = "live"
  /\ phase' = "destroyed"
  /\ LET r == destroyHashTable(numBuckets, buckets, heap, freeCount)
     IN  /\ heap' = r.heap
         /\ freeCount' = r.freeCount
  /\ last' = Call("destroy", Uninit, 0, FALSE, 0)
  /\ out' = <<>>
  /\ UNCHANGED <<numBuckets, buckets, present, filled, hvars>>

Init ==
  /\ phase = "new"
  /\ numBuckets = 0
  /\ buckets = <<>>
  /\ heap = <<>>
  /\ freeCount = <<>>
  /\ out = <<>>
  /\ last = NoCall
  /\ present = {}
  /\ filled = <<>>
  /\ hstr = <<>>
  /\ hacc = hash(hstr)

Next ==
  \/ \E n \in (0 - 1)..MaxBuckets : Construct(n)
  \/ \E p \in Puts : AddToTable(p[1], p[2])
  \/ \E key \in KeyAddrs : PrintKeyValue(key)
  \/ \E key \in KeyAddrs : RemoveFromTable(key)
  \/ PrintTable
  \/ DestroyHashTable

Spec == Init /\ [][Next]_vars

\* A call on a table that destroyHashTable has freed: the call starts by
\* reading table->numBuckets out of the freed block (and destroyHashTable would
\* free every node again), so anything may follow.
UseAfterDestroy(op, key) ==
  /\ phase = "destroyed"
  /\ phase' = "undefined"
  /\ last' = Call(op, key, 0, FALSE, 0)
  /\ out' = <<>>
  /\ UNCHANGED <<numBuckets, buckets, heap, freeCount, present, filled, hvars>>

NextAfterDestroy ==
  \/ \E op \in {"add", "lookup", "remove"}, key \in KeyAddrs :
       UseAfterDestroy(op, key)
  \/ \E op \in {"print", "destroy"} : UseAfterDestroy(op, Uninit)

\* the callers of Spec, and callers that go on after destroyHashTable
SpecAfterDestroy == Init /\ [][Next \/ NextAfterDestroy]_vars

\* hash at work on a string: hstr holds the bytes read so far, hacc the local
\* variable hash, and the loop takes one more byte c
HashString(c) ==
  /\ Len(hstr) < MaxStrLen
  /\ hstr' = Append(hstr, c)
  /\ hacc' = hashLoop(hacc, <<c>>)
  /\ UNCHANGED <<phase, numBuckets, buckets, heap, freeCount, out, last,
                 present, filled>>

\* bytes of the strings hashed (a string holds no 0 byte)
Bytes == {97, 255}

NextHash == \E c \in Bytes : HashString(c)

SpecHash == Init /\ [][NextHash]_vars

\* the run of the driver that only fills the table and looks keys up
NextUpserts ==
  \/ \E n \in (0 - 1)..MaxBuckets : Construct(n)
  \/ \E p \in Puts : AddToTable(p[1], p[2])
  \/ \E key \in KeyAddrs : PrintKeyValue(key)

SpecUpserts == Init /\ [][NextUpserts]_vars

TypeOK ==
  /\ phase \in {"new", "live", "destroyed", "undefined"}
  /\ Len(heap) = Len(freeCount)
  /\ Len(heap) = Len(filled)

\* ============================================================ properties
Live  == phase = "live" /\ numBuckets > 0
Slots == 0..(numBuckets - 1)

\* the occupied nodes of the chain that starts at bucket, head first
RECURSIVE chainNodes(_, _)
chainNodes(h, bucket) ==
  IF h[bucket].key # EmptyLit
  THEN <<bucket>> \o chainNodes(h, h[bucket].chainedBucket)
  ELSE <<>>

Range(s) == {s[j] : j \in DOMAIN s}
Occupied(i) == Range(chainNodes(heap, buckets[i]))

RECURSIVE SumLen(_)
SumLen(S) ==
  IF S = {} THEN 0
  ELSE LET i == CHOOSE i \in S : TRUE
       IN  Cardinality(Occupied(i)) + SumLen(S \ {i})

\* the chain key would be looked for in
ChainOfKey(key) == chainNodes(heap, buckets[boundedHash(key, numBuckets)])

\* no occupied entry of key's chain holds the characters of key
ContentAbsent(key) ==
  \A j \in DOMAIN ChainOfKey(key) : Str[heap[ChainOfKey(key)[j]].key] # Str[key]

\* Value of the latest addToTable(key, _) call, 0 if there was none.  Read off
\* the fill ordinals; meant for runs without removeFromTable, where no node is
\* ever released.
LatestUpsert(key) ==
  LET S == {n \in DOMAIN heap : filled[n] > 0 /\ heap[n].key = key}
  IN  IF S = {} THEN 0
      ELSE heap[CHOOSE n \in S : \A m \in S : filled[m] <= filled[n]].value

\* C1: after any sequence of upserts on a table with a positive bucket count,
\* lookup of a key returns the value of that key's most recent upsert, and
\* reports absence for a key never upserted.  (Stated for the same key object
\* and for keys other than the "" literal, which C3 and C15 are about.)
C1_LookupReturnsLatest ==
  Live => \A k \in KeyAddrs \ {EmptyLit} :
            printKeyValue(k) = [found |-> LatestUpsert(k) # 0,
                                value |-> LatestUpsert(k)]

\* C2: no chain holds two occupied entries with the same key, and the number
\* of occupied entries over all chains is the number of distinct keys upserted
\* and not removed since.  (Same key object; keys other than the "" literal.)
C2_NoDuplicateKeys ==
  Live =>
    /\ \A i \in Slots :
         LET c == chainNodes(heap, buckets[i])
         IN  \A x, y \in DOMAIN c : x # y => heap[c[x]].key # heap[c[y]].key
    /\ SumLen(Slots) = Cardinality(present \ {EmptyLit})

\* C3: keys are equal by content: after an upsert with one key object, lookup
\* with any key object holding the same characters finds that entry, and after
\* a remove with one key object no key object with the same characters is
\* found.
C3_ContentEquality ==
  (Live /\ last.key # EmptyLit) =>
    /\ last.op = "add" =>
         \A k \in KeyAddrs : Str[k] = Str[last.key] =>
            /\ searchTable(k) # NULL
            /\ searchTable(k) = searchTable(last.key)
    /\ last.op = "remove" =>
         \A k \in KeyAddrs : Str[k] = Str[last.key] => searchTable(k) = NULL

\* C4: immediately after removeFromTable(k), searchTable(k) reports absence.
C4_AbsentAfterRemove ==
  (Live /\ last.op = "remove") => searchTable(last.key) = NULL

\* C5: remove is idempotent: a removeFromTable(k) that directly follows a
\* removeFromTable(k) changes no slot, no node and releases nothing.
C5_RemoveIdempotent ==
  [][\A k \in KeyAddrs :
       (Live /\ last.op = "remove" /\ last.key = k /\ RemoveFromTable(k))
         => UNCHANGED <<buckets, heap, freeCount>>]_vars

\* C6: removing a key whose characters no entry of its chain holds is a no-op:
\* every slot, every node's key, value and successor link and the set of
\* released nodes stay as they were.
C6_RemoveAbsentIsNoOp ==
  [][\A k \in KeyAddrs :
       (Live /\ ContentAbsent(k) /\ RemoveFromTable(k))
         => UNCHANGED <<buckets, heap, freeCount>>]_vars

\* a remove that found nothing has just run on a chain that has entries
C6_Witness ==
  /\ Live
  /\ last.op = "remove"
  /\ ~last.found
  /\ ChainOfKey(last.key) # <<>>
  /\ ContentAbsent(last.key)

\* the nodes of S, the one filled by the earliest upsert first
RECURSIVE ByAge(_)
ByAge(S) ==
  IF S = {} THEN <<>>
  ELSE LET n == CHOOSE n \in S : \A m \in S : filled[n] <= filled[m]
       IN  <<n>> \o ByAge(S \ {n})

Reverse(s) == [j \in 1..Len(s) |-> s[Len(s) + 1 - j]]

Line(i, nodes) ==
  <<Header(i)>> \o [j \in 1..Len(nodes) |-> Entry(i, heap, nodes[j])]

RECURSIVE OldestFirstFrom(_)
OldestFirstFrom(i) ==
  IF i < numBuckets
  THEN Line(i, ByAge(Occupied(i))) \o OldestFirstFrom(i + 1)
  ELSE <<>>

RECURSIVE NewestFirstFrom(_)
NewestFirstFrom(i) ==
  IF i < numBuckets
  THEN Line(i, Reverse(ByAge(Occupied(i)))) \o NewestFirstFrom(i + 1)
  ELSE <<>>

\* C7 as stated: printTable writes the buckets in increasing index order and
\* the entries of each bucket in insertion order, oldest first.
C7_OldestFirst ==
  (Live /\ last.op = "print") => out = OldestFirstFrom(0)

\* C7 as amended: printTable writes the buckets in increasing index order and
\* the entries of each bucket in reverse insertion order, newest first.
C7_NewestFirst ==
  (Live /\ last.op = "print") => out = NewestFirstFrom(0)

\* printTable has just run on a table with two entries in one bucket and an
\* entry in another
C7_Witness ==
  /\ Live
  /\ last.op = "print"
  /\ \E i, j \in Slots :
       i # j /\ Cardinality(Occupied(i)) >= 2 /\ Cardinality(Occupied(j)) >= 1

\* C8: after destroyHashTable every node ever allocated has been released
\* exactly once.
C8_AllReleasedOnce ==
  phase = "destroyed" => \A n \in DOMAIN heap : freeCount[n] = 1

\* C9: construction with a non-positive bucket count is rejected, and no live
\* table has a bucket count for which hash(key) % numBuckets divides by zero.
C9_NonPositiveRejected ==
  /\ (last.op = "construct" /\ last.value <= 0) => phase = "rejected"
  /\ phase = "live" => numBuckets > 0

\* C10: right after constructHashTable(n), n > 0, every slot holds its own
\* node, that node is a terminal marker, lookup of any key reports absence and
\* printTable writes no entry.
C10_ConstructEmpty ==
  (Live /\ last.op = "construct") =>
    /\ Len(heap) = numBuckets
    /\ \A i \in Slots : buckets[i] # NULL /\ buckets[i] \in DOMAIN heap
    /\ \A i, j \in Slots : i # j => buckets[i] # buckets[j]
    /\ \A i \in Slots : heap[buckets[i]].key = EmptyLit
    /\ \A k \in KeyAddrs : ~printKeyValue(k).found
    /\ \A j \in DOMAIN printTable(numBuckets, buckets, heap) :
         printTable(numBuckets, buckets, heap)[j].tag = "bucket"

\* constructHashTable has just built a table of MaxBuckets buckets
C10_Witness ==
  /\ Live
  /\ last.op = "construct"
  /\ numBuckets = MaxBuckets
  /\ numBuckets >= 2

\* the index the three table operations compute for key
IndexOf(key) == boundedHash(key, numBuckets)

\* a step leaves every slot but b, and the chain below it, as it was
OtherSlotsSame(b) ==
  \A i \in Slots \ {b} :
    /\ buckets'[i] = buckets[i]
    /\ chainNodes(heap', buckets'[i]) = chainNodes(heap, buckets[i])

\* The step is the call addToTable(k, v), removeFromTable(k) or
\* printKeyValue(k); the call record the step leaves is compared first.
Adds(k, v) ==
  /\ last'.op = "add"
  /\ last'.key = k
  /\ last'.value = v
  /\ AddToTable(k, v)
Removes(k) ==
  /\ last'.op = "remove"
  /\ last'.key = k
  /\ RemoveFromTable(k)
Looks(k) ==
  /\ last'.op = "lookup"
  /\ last'.key = k
  /\ PrintKeyValue(k)

\* C11: on a table of N > 0 buckets, addToTable, searchTable and
\* removeFromTable of key k work on bucket hash(k) mod N, which lies in
\* 0..N-1, and no operation changes numBuckets after construction.
C11_IndexStability ==
  [][/\ phase = "live" => numBuckets' = numBuckets
     /\ Live => \A k \in KeyAddrs : IndexOf(k) \in Slots
     /\ \A p \in Puts :
          (Live /\ Adds(p[1], p[2])) =>
            /\ OtherSlotsSame(IndexOf(p[1]))
            /\ p[1] # EmptyLit =>
                 searchTable(p[1])' \in Occupied(IndexOf(p[1]))'
     /\ \A k \in KeyAddrs :
          (Live /\ Removes(k)) => OtherSlotsSame(IndexOf(k))
     /\ \A k \in KeyAddrs :
          (Live /\ Looks(k) /\ last'.found) =>
            searchTable(k) \in Occupied(IndexOf(k))]_vars

\* a key has just been found in a table whose two buckets both hold entries
C11_Witness ==
  /\ Live
  /\ numBuckets >= 2
  /\ last.op = "lookup"
  /\ last.found
  /\ \A i \in Slots : Occupied(i) # {}

\* 33 * a + carry in base 256 with every limb kept
RECURSIVE Times33Plus(_, _, _)
Times33Plus(a, carry, i) ==
  IF i > Len(a) THEN <<>>
  ELSE LET t == a[i] * 33 + carry
       IN  <<t % 256>> \o Times33Plus(a, t \div 256, i + 1)

\* 5381 in base 256, four bytes wider than an unsigned long
WideSeed == [i \in 1..(WordBits \div 8 + 4) |->
               CASE i = 1 -> 5381 % 256
                 [] i = 2 -> 5381 \div 256
                 [] OTHER -> 0]

\* DJB2 of str without wraparound
RECURSIVE Djb2Exact(_, _)
Djb2Exact(acc, str) ==
  IF str = <<>> THEN acc
  ELSE Djb2Exact(Times33Plus(acc, Head(str), 1), Tail(str))

\* the bytes of an unsigned long, least significant first
WordBytes(w) ==
  [i \in 1..(WordBits \div 8) |->
     (w[(8 * (i - 1)) \div LimbBits + 1] \div 2^((8 * (i - 1)) % LimbBits)) % 256]

\* C12: hash is DJB2: from 5381, each byte c in order takes the accumulator to
\* (accumulator * 33 + c) modulo 2^WordBits; the empty string hashes to 5381
\* and overflow wraps.
C12_HashIsDjb2 ==
  /\ WordBytes(hacc) = SubSeq(Djb2Exact(WideSeed, hstr), 1, WordBits \div 8)
  /\ hstr = <<>> => hacc = ToWord(5381)

\* a string whose exact DJB2 value does not fit an unsigned long was hashed
C12_Witness ==
  \E i \in (WordBits \div 8 + 1)..(WordBits \div 8 + 4) :
    Djb2Exact(WideSeed, hstr)[i] # 0

\* C13: an addToTable call allocates exactly one node when the key is not yet
\* in its chain and none when it already is.  (Same key object.)
C13_OneNodePerNewKey ==
  [][\A p \in Puts :
       (Live /\ AddToTable(p[1], p[2])) =>
         Len(heap') - Len(heap) = IF searchTable(p[1]) # NULL THEN 0 ELSE 1]_vars

\* C14: printKeyValue / searchTable and printTable change no slot, no node's
\* key, value or successor link and no node's allocation state.
C14_ReadOnly ==
  [][(Live /\ (PrintTable \/ \E k \in KeyAddrs : PrintKeyValue(k)))
       => UNCHANGED <<numBuckets, buckets, heap, freeCount>>]_vars

\* a key was looked up through a chain that has entries and was not found
C14_Witness ==
  /\ Live
  /\ last.op = "lookup"
  /\ ~last.found
  /\ ChainOfKey(last.key) # <<>>

\* the nodes a walk from slot i visits: the occupied ones and the terminal
Reach(i) == Occupied(i) \cup {chainEnd(heap, buckets[i])}

\* C15: empty-string keys are legal: after addToTable of the empty string
\* with value v, lookup of it returns v and no unreleased node is out of reach
\* of the slots.
C15_EmptyKeyLegal ==
  (Live /\ last.op = "add" /\ Str[last.key] = <<>>) =>
    /\ printKeyValue(last.key) = [found |-> TRUE, value |-> last.value]
    /\ \A n \in DOMAIN heap :
         freeCount[n] = 0 => \E i \in Slots : n \in Reach(i)

\* C16: once destroyHashTable has run, every later call on the table is
\* detected on entry and reported as UseAfterDestroy, and the table stays
\* destroyed.
C16_UseAfterDestroyDetected ==
  [][phase = "destroyed" =>
       (phase' = "destroyed" /\ last'.op = "UseAfterDestroy")]_vars

\* The nodes a walk from node n visits, the terminal marker included, in at
\* most fuel steps; NULL marks a step that leaves the heap or outlasts fuel.
RECURSIVE Walk(_, _, _)
Walk(h, n, fuel) ==
  IF n \notin DOMAIN h \/ fuel = 0 THEN <<NULL>>
  ELSE IF h[n].key = EmptyLit THEN <<n>>
  ELSE <<n>> \o Walk(h, h[n].chainedBucket, fuel - 1)

WalkOf(i) == Walk(heap, buckets[i], Len(heap))

WellFormed(i) ==
  LET w == WalkOf(i)
  IN  /\ \A j \in DOMAIN w : w[j] # NULL /\ freeCount[w[j]] = 0
      /\ \A j \in 1..(Len(w) - 1) : heap[w[j]].key \in KeyAddrs \ {EmptyLit}
      /\ heap[w[Len(w)]].key = EmptyLit
      /\ \A x, y \in DOMAIN w : x # y => w[x] # w[y]

\* C17: in every state reached by construct, upserts and removes, following
\* the successor links from any slot passes zero or more occupied entries and
\* then reaches a terminal marker in finitely many steps: no null slot, no
\* cycle, no node in two chains, no released node on the way.
C17_ChainsWellFormed ==
  Live =>
    /\ \A i \in Slots : WellFormed(i)
    /\ \A i, j \in Slots :
         i # j => Range(WalkOf(i)) \cap Range(WalkOf(j)) = {}

\* a remove has just spliced an entry out of a table that still has a chain
\* of two entries
C17_Witness ==
  /\ Live
  /\ last.op = "remove"
  /\ last.found
  /\ \E i \in Slots : Cardinality(Occupied(i)) >= 2

\* the sequence s without the node f
Without(s, f) == LET Keep(n) == n # f IN SelectSeq(s, Keep)

\* C18: removeFromTable of a key in its chain splices out exactly the entry
\* searchTable finds: the walk from the slot is the old walk without that node
\* (so its predecessor, or the slot, now leads to its successor), that node and
\* no other is released, and every other entry keeps its key and value, at
\* whatever place of the chain the entry was.
C18_RemoveSplicesOne ==
  [][\A k \in KeyAddrs :
       (Live /\ searchTable(k) # NULL /\ RemoveFromTable(k)) =>
         LET b == IndexOf(k)
             f == searchTable(k)
             w == WalkOf(b)
         IN  /\ Walk(heap', buckets'[b], Len(heap')) = Without(w, f)
             /\ \A n \in Range(w) \ {f} :
                  /\ heap'[n].key = heap[n].key
                  /\ heap'[n].value = heap[n].value
             /\ freeCount' = [freeCount EXCEPT ![f] = @ + 1]
             /\ OtherSlotsSame(b)]_vars

\* The one remove made so far took an entry from between two entries that
\* are still in the chain (node ids grow along a chain).
C18_Witness ==
  /\ Live
  /\ last.op = "remove"
  /\ last.found
  /\ Cardinality({n \in DOMAIN heap : freeCount[n] > 0}) = 1
  /\ \E f \in DOMAIN heap :
       /\ freeCount[f] = 1
       /\ \E x, y \in Range(ChainOfKey(last.key)) : x < f /\ f < y

\* C19: addToTable and removeFromTable of key k leave every slot other than
\* hash(k) mod numBuckets and its chain as they were, and printKeyValue gives
\* the same report (found and value, or not found) for every other key before
\* and after, also for keys in the chain of k.
C19_FrameEffect ==
  [][\A k \in KeyAddrs :
       (/\ Live
        /\ \/ Removes(k)
           \/ \E p \in Puts : p[1] = k /\ Adds(k, p[2]))
         => /\ OtherSlotsSame(IndexOf(k))
            /\ \A k2 \in KeyAddrs \ {k} :
                 printKeyValue(k2)' = printKeyValue(k2)]_vars

\* an entry was removed from a chain that still holds an entry of another
\* key, while the other bucket holds an entry too
C19_Witness ==
  /\ Live
  /\ last.op = "remove"
  /\ last.found
  /\ \E n \in Occupied(IndexOf(last.key)) : heap[n].key # last.key
  /\ \E i \in Slots \ {IndexOf(last.key)} : Occupied(i) # {}

\* the fields the functions read on a walk from slot i hold values that were
\* stored: every function reads the key of each node it visits, and the value
\* and the successor only of a node whose key is not ""
InitializedOnWalk(i) ==
  LET w == WalkOf(i)
  IN  \A j \in DOMAIN w :
        /\ w[j] \in DOMAIN heap
        /\ heap[w[j]].key # Uninit
        /\ heap[w[j]].key # EmptyLit =>
             /\ heap[w[j]].value # Uninit
             /\ heap[w[j]].chainedBucket # Uninit

\* C20: in every reachable live table no walk reads a field that was never
\* stored, and the successor of an unreleased node with key "" changes only in
\* the addToTable step that fills that node, the end of the chain of the key,
\* with the key, the value and a fresh node.
C20_NoUninitializedRead ==
  [][/\ Live => \A i \in Slots : InitializedOnWalk(i)
     /\ \A n \in DOMAIN heap :
          (/\ Live
           /\ phase' = "live"
           /\ heap[n].key = EmptyLit
           /\ freeCount[n] = 0
           /\ freeCount'[n] = 0
           /\ heap'[n].chainedBucket # heap[n].chainedBucket)
            => \E p \in Puts :
                 /\ AddToTable(p[1], p[2])
                 /\ n = chainEnd(heap, buckets[IndexOf(p[1])])
                 /\ heap'[n] = Bucket(p[1], p[2], Len(heap) + 1)
                 /\ heap'[Len(heap) + 1] = EmptyBucket]_vars

\* a lookup has read the value of an entry in a table in which an entry was
\* released before and the end of every chain still has no value and no
\* successor stored
C20_Witness ==
  /\ Live
  /\ last.op = "lookup"
  /\ last.found
  /\ \E n \in DOMAIN heap : freeCount[n] > 0
  /\ \A i \in Slots :
       LET e == chainEnd(heap, buckets[i])
       IN  heap[e].value = Uninit /\ heap[e].chainedBucket = Uninit
====
